---- MODULE Spec2Model ----
(***************************************************************************)
(* A model of the dynamo package: the create-table draft (createtable.go), *)
(* the retry loop around the remote call and the marshal engine.           *)
(*                                                                         *)
(*   Spec         the draft, its fluent calls, RunWithContext and retry    *)
(*   SpecMarshal  marshalStruct / marshal applied to bounded Go values     *)
(*   SpecAppend   unmarshalAppend called again and again on one target     *)
(***************************************************************************)
EXTENDS Integers, Sequences, FiniteSets, TLC

VARIABLES
    example,    \* the value handed to CreateTable (kept for reference)
    ct,         \* the CreateTable draft (struct CreateTable)
    pc,         \* position of the caller: "draft", "call", "sleep", "done", "panic"
                \* ("idle" where no draft is in play)
    request,    \* the CreateTableInput built by input(), or NoRequest
    result,     \* the error returned by RunWithContext / retry, NotReturned before
    lastErr,    \* retry's local variable err
    calls,      \* number of calls of f (remote CreateTable attempts)
    ctx,        \* the governing context: "active", "canceled", "deadline"
    fluent,     \* number of fluent calls made on the draft
    min,        \* the input of the marshal call (SpecMarshal)
    mout,       \* its result (SpecMarshal)
    srcItem,    \* the item handed to unmarshalAppend (SpecAppend)
    target,     \* the zero value of the element type of the target slice
    results,    \* the target slice
    appendErr   \* what the last call of unmarshalAppend returned

vars == <<example, ct, pc, request, result, lastErr, calls, ctx, fluent, min, mout,
          srcItem, target, results, appendErr>>
ctVars == <<example, ct, pc, request, result, lastErr, calls, ctx, fluent>>
mVars == <<min, mout>>
aVars == <<srcItem, target, results, appendErr>>

(***************************************************************************)
(* Bounds                                                                  *)
(***************************************************************************)
MaxFluent == 2      \* fluent calls on one draft
MaxAttempts == 3    \* calls of f in one retry
MaxLen == 2         \* elements of a slice handed to marshal
MaxAppend == 15     \* calls of unmarshalAppend on one target that append

(***************************************************************************)
(* Strings: strings.Split, strconv.FormatInt                               *)
(***************************************************************************)
Char(s, i) == SubSeq(s, i, i)

RECURSIVE SplitFrom(_, _, _)
\* strings.Split(s, ","): the segments of s from position i on, start being
\* the first position of the current segment
SplitFrom(s, start, i) ==
    IF i > Len(s) THEN << SubSeq(s, start, Len(s)) >>
    ELSE IF Char(s, i) = "," THEN << SubSeq(s, start, i - 1) >> \o SplitFrom(s, i + 1, i + 1)
    ELSE SplitFrom(s, start, i + 1)

Split(s) == SplitFrom(s, 1, 1)

Digit(d) == Char("0123456789", d + 1)

RECURSIVE FormatNat(_)
FormatNat(n) == IF n < 10 THEN Digit(n) ELSE FormatNat(n \div 10) \o Digit(n % 10)

\* strconv.FormatInt(n, 10)
FormatInt(n) == IF n < 0 THEN "-" \o FormatNat(-n) ELSE FormatNat(n)

\* strconv.FormatFloat(f, 'f', -1, 64) for a float held in tenths (15 is 1.5):
\* the shortest decimal text, no trailing ".0"
FormatFloat(t) ==
    LET a == IF t < 0 THEN -t ELSE t
        sign == IF t < 0 THEN "-" ELSE ""
    IN  IF a % 10 = 0 THEN sign \o FormatNat(a \div 10)
        ELSE sign \o FormatNat(a \div 10) \o "." \o Digit(a % 10)


(***************************************************************************)
(* Attribute values (dynamodb.AttributeValue): one record shape per variant *)
(***************************************************************************)
AvS(s) == [t |-> "S", s |-> s]
AvN(n) == [t |-> "N", n |-> n]
AvB(b) == [t |-> "B", b |-> b]
AvBOOL(b) == [t |-> "BOOL", bool |-> b]
AvNULL == [t |-> "NULL"]
AvL(l) == [t |-> "L", l |-> l]
AvM(m) == [t |-> "M", m |-> m]
AvSS(ss) == [t |-> "SS", ss |-> ss]
AvNS(ns) == [t |-> "NS", ns |-> ns]
AvBS(bs) == [t |-> "BS", bs |-> bs]
NilAv == [t |-> "nil"]          \* a nil *dynamodb.AttributeValue

(***************************************************************************)
(* Go values as reflection sees them.  kind is the reflect.Kind; cap holds  *)
(* the interfaces the value's type implements: m is "marshaler" (Marshaler),*)
(* "text" (encoding.TextMarshaler) or "none"; zeroer is "zero" / "nonzero"  *)
(* when the type has IsZero() bool (its answer), else "none".  A nil        *)
(* pointer and a slice carry a value of their element type (elem) so that   *)
(* the element type can be inspected.                                       *)
(***************************************************************************)
NoCap == [m |-> "none", zeroer |-> "none", mErr |-> FALSE, mAv |-> NilAv, text |-> ""]
MarshalerCap(av, err) == [m |-> "marshaler", zeroer |-> "none", mErr |-> err, mAv |-> av, text |-> ""]
TextCap(text, err, z) == [m |-> "text", zeroer |-> z, mErr |-> err, mAv |-> NilAv, text |-> text]

IntKinds == {"int", "int64", "int32", "int16", "int8"}
UintKinds == {"uint", "uint64", "uint32", "uint16", "uint8"}
FloatKinds == {"float32", "float64"}

GoInt(k, n) == [kind |-> k, cap |-> NoCap, i |-> n]
GoFloat(t) == [kind |-> "float64", cap |-> NoCap, f |-> t]
GoString(s) == [kind |-> "string", cap |-> NoCap, s |-> s]
GoBool(b) == [kind |-> "bool", cap |-> NoCap, b |-> b]
GoPtr(v) == [kind |-> "ptr", cap |-> v.cap, isNil |-> FALSE, elem |-> v]
GoNilPtr(zero) == [kind |-> "ptr", cap |-> NoCap, isNil |-> TRUE, elem |-> zero]
GoSlice(zero, elems) == [kind |-> "slice", cap |-> NoCap, isNil |-> FALSE, elem |-> zero, elems |-> elems]
GoNilSlice(zero) == [kind |-> "slice", cap |-> NoCap, isNil |-> TRUE, elem |-> zero, elems |-> <<>>]
GoMap(keyKind, entries) == [kind |-> "map", cap |-> NoCap, isNil |-> FALSE, keyKind |-> keyKind, entries |-> entries]
GoNilMap(keyKind) == [kind |-> "map", cap |-> NoCap, isNil |-> TRUE, keyKind |-> keyKind, entries |-> <<>>]
GoIface(v) == [kind |-> "interface", cap |-> NoCap, isNil |-> FALSE, dyn |-> v]
GoNilIface == [kind |-> "interface", cap |-> NoCap, isNil |-> TRUE]
GoChan == [kind |-> "chan", cap |-> NoCap, isNil |-> TRUE]
GoStruct(fields) == [kind |-> "struct", cap |-> NoCap, fields |-> fields]
GoInvalid == [kind |-> "invalid", cap |-> NoCap]    \* the zero reflect.Value
WithCap(v, c) == [v EXCEPT !.cap = c]

\* reflect.StructField with its value: Name, the `dynamo` tag, the values of
\* the `index` and `localIndex` tag keys, exported (CanInterface), Anonymous
Field(name, dynamo, val) ==
    [Name |-> name, dynamo |-> dynamo, index |-> <<>>, localIndex |-> <<>>,
     exported |-> TRUE, anonymous |-> FALSE, val |-> val]
Indexed(f, gsi, lsi) == [f EXCEPT !.index = gsi, !.localIndex = lsi]
Embedded(name, val) == [Field(name, "", val) EXCEPT !.anonymous = TRUE]
Unexported(f) == [f EXCEPT !.exported = FALSE]

(***************************************************************************)
(* Tag parsing                                                             *)
(***************************************************************************)
RECURSIVE SpecialOf(_, _, _)
\* the loop of fieldInfo over tags[1:]: the last token that is not
\* "omitempty" is the special modifier
SpecialOf(tags, i, special) ==
    IF i > Len(tags) THEN special
    ELSE SpecialOf(tags, i + 1, IF tags[i] = "omitempty" THEN special ELSE tags[i])

fieldInfo(field) ==
    LET tags == Split(field.dynamo)
    IN  [name |-> IF tags[1] = "" THEN field.Name ELSE tags[1],
         special |-> SpecialOf(tags, 2, ""),
         omitempty |-> \E i \in 2..Len(tags) : tags[i] = "omitempty"]

KeyTypeHash == "HASH"
KeyTypeRange == "RANGE"

RECURSIVE KeyTypeFrom(_, _)
KeyTypeFrom(split, i) ==
    IF i > Len(split) THEN ""
    ELSE IF split[i] \in {"hash", "partition"} THEN KeyTypeHash
    ELSE IF split[i] \in {"range", "sort"} THEN KeyTypeRange
    ELSE KeyTypeFrom(split, i + 1)

keyTypeFromTag(tag) ==
    LET split == Split(tag)
    IN  IF Len(split) <= 1 THEN "" ELSE KeyTypeFrom(split, 2)

\* index[:len(index)-len(keyType)-1] in from(); a negative bound is an
\* out-of-range slice, reported as "!panic"
indexNameOf(index) ==
    LET n == Len(index) - Len(keyTypeFromTag(index)) - 1
    IN  IF n < 0 THEN "!panic" ELSE SubSeq(index, 1, n)

(***************************************************************************)
(* typeOf: the scalar attribute type of a key field                        *)
(***************************************************************************)
\* av2iface on the variants a key marshaler can sensibly return
av2iface(av) ==
    IF av.t = "S" THEN [err |-> FALSE, v |-> GoString(av.s)]
    ELSE IF av.t = "N" THEN [err |-> FALSE, v |-> GoFloat(0)]
    ELSE IF av.t = "B" THEN [err |-> FALSE, v |-> GoSlice(GoInt("uint8", 0), <<>>)]
    ELSE IF av.t = "BOOL" THEN [err |-> FALSE, v |-> GoBool(av.bool)]
    ELSE [err |-> TRUE, v |-> GoInvalid]

RECURSIVE kindType(_)
\* the check: loop of typeOf over the static type
kindType(v) ==
    IF v.kind = "ptr" THEN kindType(v.elem)
    ELSE IF v.kind = "string" THEN "S"
    ELSE IF v.kind \in (IntKinds \cup UintKinds \cup FloatKinds) THEN "N"
    ELSE IF v.kind \in {"slice", "array"} THEN (IF v.elem.kind = "uint8" THEN "B" ELSE "")
    ELSE ""

RECURSIVE typeOfAt(_, _, _)
typeOfAt(rv, canInterface, tag) ==
    LET split == Split(tag)
    IN  IF \E i \in 2..Len(split) : split[i] = "unixtime" THEN "N"
        ELSE IF canInterface /\ rv.cap.m = "marshaler" /\ ~rv.cap.mErr /\ ~av2iface(rv.cap.mAv).err
             THEN typeOfAt(av2iface(rv.cap.mAv).v, TRUE, tag)
        ELSE IF canInterface /\ rv.cap.m = "text" THEN "S"
        ELSE kindType(rv)

typeOf(field) == typeOfAt(field.val, field.exported, field.dynamo)

(***************************************************************************)
(* The draft (struct CreateTable).  Maps are functions from names; a nil   *)
(* pointer field is a record with isNil TRUE.  recorded is not a field of  *)
(* the struct: it is the history of the non-nil errors handed to setError. *)
(***************************************************************************)
\* An error value: its message; the HTTP status of the *http.ResponseError it
\* wraps (0: none); the code of the smithy.APIError it wraps ("": none); and
\* the attempt of f that produced it (0: not a transport error)
NewError(msg) == [msg |-> msg, status |-> 0, code |-> "", attempt |-> 0]
NilErr == NewError("<nil>")
ErrNotStruct == NewError("dynamo: CreateTable example must be a struct")
ErrInvalidType(name) == NewError("dynamo: invalid type for key: " \o name)
ErrNoSuchIndex(index) == NewError("dynamo: no such index: " \o index)

NilProjection == [isNil |-> TRUE, ProjectionType |-> "", NonKeyAttributes |-> <<>>]
NewProjection(t, attribs) == [isNil |-> FALSE, ProjectionType |-> t, NonKeyAttributes |-> attribs]
NilThroughput == [isNil |-> TRUE, Read |-> 0, Write |-> 0]
Throughput(r, w) == [isNil |-> FALSE, Read |-> r, Write |-> w]
NilSSE == [isNil |-> TRUE, Enabled |-> FALSE, KMSMasterKeyId |-> "", SSEType |-> ""]

KeysOnlyProjection == "KEYS_ONLY"
AllProjection == "ALL"
IncludeProjection == "INCLUDE"

ZeroGlobalIndex == [KeySchema |-> <<>>, Projection |-> NilProjection, ProvisionedThroughput |-> NilThroughput]
ZeroLocalIndex == [KeySchema |-> <<>>, Projection |-> NilProjection]

KeySchemaElement(name, keyType) == [AttributeName |-> name, KeyType |-> keyType]

\* m[k] of a Go map: the zero value when k is absent
MapGet(m, k, zero) == IF k \in DOMAIN m THEN m[k] ELSE zero
MapPut(m, k, v) == [x \in DOMAIN m \cup {k} |-> IF x = k THEN v ELSE m[x]]

NewCreateTable ==
    [attribs |-> <<>>, schema |-> <<>>,
     globalIndices |-> <<>>, localIndices |-> <<>>,
     readUnits |-> 1, writeUnits |-> 1,
     streamView |-> "", ondemand |-> FALSE, tags |-> <<>>,
     encryptionSpecification |-> NilSSE,
     err |-> NilErr, recorded |-> <<>>]

setErrorOverwrite(c, err) ==
    IF err = NilErr THEN c
    ELSE [c EXCEPT !.err = err, !.recorded = Append(@, err)]

setError(c, err) ==
    IF err = NilErr THEN c
    ELSE [c EXCEPT !.err = IF c.err = NilErr THEN err ELSE c.err,
                   !.recorded = Append(@, err)]

addNoDedup(c, name, typ) ==
    IF typ = "" THEN setError(c, ErrInvalidType(name))
    ELSE [c EXCEPT !.attribs = Append(@, [AttributeName |-> name, AttributeType |-> typ])]

add(c, name, typ) ==
    IF typ = "" THEN setError(c, ErrInvalidType(name))
    ELSE IF \E i \in 1..Len(c.attribs) : c.attribs[i].AttributeName = name THEN c
    ELSE [c EXCEPT !.attribs = Append(@, [AttributeName |-> name, AttributeType |-> typ])]

RECURSIVE addGlobal(_, _, _, _)
\* the loop over the values of the `index` tag key
addGlobal(c, field, name, i) ==
    IF i > Len(field.index) THEN c
    ELSE LET c1 == add(c, name, typeOf(field))
             indexName == indexNameOf(field.index[i])
             idx == MapGet(c1.globalIndices, indexName, ZeroGlobalIndex)
             idx1 == [idx EXCEPT !.KeySchema =
                        Append(@, KeySchemaElement(name, keyTypeFromTag(field.index[i])))]
         IN  addGlobal([c1 EXCEPT !.globalIndices = MapPut(@, indexName, idx1)], field, name, i + 1)

RECURSIVE addLocal(_, _, _, _)
\* the loop over the values of the `localIndex` tag key
addLocal(c, field, name, i) ==
    IF i > Len(field.localIndex) THEN c
    ELSE LET c1 == add(c, name, typeOf(field))
             indexName == indexNameOf(field.localIndex[i])
             idx == MapGet(c1.localIndices, indexName, ZeroLocalIndex)
             idx1 == [idx EXCEPT !.KeySchema =
                        Append(@, KeySchemaElement(name, keyTypeFromTag(field.localIndex[i])))]
         IN  addLocal([c1 EXCEPT !.localIndices = MapPut(@, indexName, idx1)], field, name, i + 1)

\* the "primary keys" block of from()
addPrimary(c, field, name) ==
    LET keyType == keyTypeFromTag(field.dynamo)
    IN  IF keyType = "" THEN c
        ELSE [add(c, name, typeOf(field)) EXCEPT !.schema = Append(@, KeySchemaElement(name, keyType))]

RECURSIVE from(_, _)
RECURSIVE fromFields(_, _, _)
fromAnyKind(c, rv) ==
    IF rv.kind = "struct" THEN fromFields(c, rv.fields, 1)
    ELSE IF rv.kind = "ptr" THEN from(c, IF rv.isNil THEN GoInvalid ELSE rv.elem)
    ELSE [ct |-> c, err |-> NilErr]

\* from(rv): the draft after the walk and the error returned
from(c, rv) ==
    IF rv.kind = "struct" THEN fromFields(c, rv.fields, 1)
    ELSE IF rv.kind = "ptr" THEN from(c, IF rv.isNil THEN GoInvalid ELSE rv.elem)
    ELSE [ct |-> c, err |-> ErrNotStruct]

fromFields(c, fields, i) ==
    IF i > Len(fields) THEN [ct |-> c, err |-> NilErr]
    ELSE LET field == fields[i]
             name == fieldInfo(field).name
         IN  IF name = "-" THEN fromFields(c, fields, i + 1)
             ELSE LET inner == IF field.val.kind = "struct" /\ field.anonymous
                               THEN from(c, field.val)
                               ELSE [ct |-> c, err |-> NilErr]
                  IN  IF inner.err # NilErr THEN inner
                      ELSE fromFields(
                             addLocal(addGlobal(addPrimary(inner.ct, field, name), field, name, 1),
                                      field, name, 1),
                             fields, i + 1)

\* db.CreateTable(name, from)
CreateTable(from_) ==
    LET r == from(NewCreateTable, from_)
    IN  setError(r.ct, r.err)

(***************************************************************************)
(* Fluent configuration                                                    *)
(***************************************************************************)
OnDemand(c, enabled) == [c EXCEPT !.ondemand = enabled]

Provision(c, readUnits, writeUnits) == [c EXCEPT !.readUnits = readUnits, !.writeUnits = writeUnits]

ProvisionIndexDeclaredOnly(c, index, readUnits, writeUnits) ==
    IF index \in DOMAIN c.globalIndices
    THEN [c EXCEPT !.globalIndices[index].ProvisionedThroughput = Throughput(readUnits, writeUnits)]
    ELSE c

ProvisionIndex(c, index, readUnits, writeUnits) ==
    LET idx == MapGet(c.globalIndices, index, ZeroGlobalIndex)
    IN  [c EXCEPT !.globalIndices =
            MapPut(@, index, [idx EXCEPT !.ProvisionedThroughput = Throughput(readUnits, writeUnits)])]

Stream(c, view) == [c EXCEPT !.streamView = view]

RECURSIVE Dedup(_, _, _)
\* the attribs: loop of Project: each attribute once, in first-seen order
Dedup(attribs, i, acc) ==
    IF i > Len(attribs) THEN acc
    ELSE Dedup(attribs, i + 1,
               IF \E j \in 1..Len(acc) : acc[j] = attribs[i] THEN acc ELSE Append(acc, attribs[i]))

Project(c, index, projection, includeAttribs) ==
    LET proj == NewProjection(projection,
                    IF projection = IncludeProjection THEN Dedup(includeAttribs, 1, <<>>) ELSE <<>>)
    IN  IF index \in DOMAIN c.globalIndices
        THEN [c EXCEPT !.globalIndices[index].Projection = proj]
        ELSE IF index \in DOMAIN c.localIndices
        THEN [c EXCEPT !.localIndices[index].Projection = proj]
        ELSE setError(c, ErrNoSuchIndex(index))

\* Index(index Index)
Index(c, index) ==
    LET c1 == add(c, index.HashKey, index.HashKeyType)
        c2 == IF index.RangeKey # "" THEN add(c1, index.RangeKey, index.RangeKeyType) ELSE c1
        ks == IF index.RangeKey # ""
              THEN << KeySchemaElement(index.HashKey, KeyTypeHash),
                      KeySchemaElement(index.RangeKey, KeyTypeRange) >>
              ELSE << KeySchemaElement(index.HashKey, KeyTypeHash) >>
        proj == IF index.ProjectionType # ""
                THEN NewProjection(index.ProjectionType,
                        IF index.ProjectionType = IncludeProjection THEN index.ProjectionAttribs ELSE <<>>)
                ELSE NilProjection
    IN  IF index.Local
        THEN LET idx == MapGet(c2.localIndices, index.Name, ZeroLocalIndex)
             IN  [c2 EXCEPT !.localIndices = MapPut(@, index.Name,
                    [idx EXCEPT !.KeySchema = ks,
                                !.Projection = IF proj.isNil THEN @ ELSE proj])]
        ELSE LET idx == MapGet(c2.globalIndices, index.Name, ZeroGlobalIndex)
             IN  [c2 EXCEPT !.globalIndices = MapPut(@, index.Name,
                    [idx EXCEPT !.KeySchema = ks,
                                !.ProvisionedThroughput =
                                    IF index.Throughput.Read # 0 \/ index.Throughput.Write # 0
                                    THEN Throughput(index.Throughput.Read, index.Throughput.Write)
                                    ELSE @,
                                !.Projection = IF proj.isNil THEN @ ELSE proj])]

Tag(c, key, value) ==
    IF \E i \in 1..Len(c.tags) : c.tags[i].Key = key
    THEN LET i == CHOOSE j \in 1..Len(c.tags) :
                    c.tags[j].Key = key /\ \A k \in 1..(j - 1) : c.tags[k].Key # key
         IN  [c EXCEPT !.tags[i].Value = value]
    ELSE [c EXCEPT !.tags = Append(@, [Key |-> key, Value |-> value])]

SSEEncryption(c, enabled, keyID, sseType) ==
    [c EXCEPT !.encryptionSpecification =
        [isNil |-> FALSE, Enabled |-> enabled, KMSMasterKeyId |-> keyID, SSEType |-> sseType]]

(***************************************************************************)
(* Finalization                                                            *)
(***************************************************************************)
sortKeySchemasNoSwap(schemas) ==
    [panic |-> Len(schemas) = 0 \/ (schemas[1].KeyType = KeyTypeRange /\ Len(schemas) < 2),
     schemas |-> schemas]

\* sortKeySchemas swaps in place; an index out of range is a panic
sortKeySchemas(schemas) ==
    IF Len(schemas) = 0 THEN [panic |-> TRUE, schemas |-> schemas]
    ELSE IF schemas[1].KeyType = KeyTypeRange
         THEN IF Len(schemas) < 2 THEN [panic |-> TRUE, schemas |-> schemas]
              ELSE [panic |-> FALSE,
                    schemas |-> [schemas EXCEPT ![1] = schemas[2], ![2] = schemas[1]]]
         ELSE [panic |-> FALSE, schemas |-> schemas]

\* one iteration of the loop of input() over ct.localIndices; schema is
\* ct.schema after its sort
inputLocal(idx, schema) ==
    LET ks == IF Len(idx.KeySchema) = 1 THEN << schema[1], idx.KeySchema[1] >> ELSE idx.KeySchema
        sorted == sortKeySchemas(ks)
    IN  [panic |-> sorted.panic,
         copied |-> Len(idx.KeySchema) = 1,
         idx |-> [KeySchema |-> sorted.schemas,
                  Projection |-> IF idx.Projection.isNil THEN NewProjection(AllProjection, <<>>)
                                 ELSE idx.Projection]]

inputGlobalNoFault(idx, ondemand) ==
    [panic |-> FALSE,
     idx |-> [KeySchema |-> idx.KeySchema,
              Projection |-> IF idx.Projection.isNil THEN NewProjection(AllProjection, <<>>)
                             ELSE idx.Projection,
              ProvisionedThroughput |->
                  IF ondemand THEN NilThroughput
                  ELSE IF idx.ProvisionedThroughput.isNil THEN Throughput(1, 1)
                  ELSE idx.ProvisionedThroughput]]

\* one iteration of the loop of input() over ct.globalIndices
inputGlobal(idx, ondemand) ==
    LET sorted == sortKeySchemas(idx.KeySchema)
    IN  [panic |-> sorted.panic,
         idx |-> [KeySchema |-> sorted.schemas,
                  Projection |-> IF idx.Projection.isNil THEN NewProjection(AllProjection, <<>>)
                                 ELSE idx.Projection,
                  ProvisionedThroughput |->
                      IF ondemand THEN NilThroughput
                      ELSE IF idx.ProvisionedThroughput.isNil THEN Throughput(1, 1)
                      ELSE idx.ProvisionedThroughput]]

\* input(): the request, and the draft as the in-place sorts leave it
input(c) ==
    LET schema == sortKeySchemas(c.schema)
        locals == [n \in DOMAIN c.localIndices |-> inputLocal(c.localIndices[n], schema.schemas)]
        globals == [n \in DOMAIN c.globalIndices |-> inputGlobal(c.globalIndices[n], c.ondemand)]
    IN  IF schema.panic \/ (\E n \in DOMAIN locals : locals[n].panic)
                        \/ (\E n \in DOMAIN globals : globals[n].panic)
        THEN [panic |-> TRUE]
        ELSE [panic |-> FALSE,
              ct |-> [c EXCEPT !.schema = schema.schemas,
                               !.localIndices = [n \in DOMAIN locals |->
                                    IF locals[n].copied THEN c.localIndices[n]
                                    ELSE [c.localIndices[n] EXCEPT !.KeySchema = locals[n].idx.KeySchema]],
                               !.globalIndices = [n \in DOMAIN globals |->
                                    [c.globalIndices[n] EXCEPT !.KeySchema = globals[n].idx.KeySchema]]],
              input |-> [AttributeDefinitions |-> c.attribs,
                         KeySchema |-> schema.schemas,
                         SSESpecification |-> c.encryptionSpecification,
                         BillingMode |-> IF c.ondemand THEN "PAY_PER_REQUEST" ELSE "",
                         ProvisionedThroughput |-> IF c.ondemand THEN NilThroughput
                                                   ELSE Throughput(c.readUnits, c.writeUnits),
                         StreamViewType |-> c.streamView,
                         LocalSecondaryIndexes |-> [n \in DOMAIN locals |-> locals[n].idx],
                         GlobalSecondaryIndexes |-> [n \in DOMAIN globals |-> globals[n].idx],
                         Tags |-> c.tags]]

(***************************************************************************)
(* retry                                                                   *)
(***************************************************************************)
canRetryAlways(err) == err.status # 0

canRetry(err) ==
    IF err.status # 0
    THEN IF err.status \in {500, 503} THEN TRUE
         ELSE IF err.status = 400
              THEN err.code \in {"ProvisionedThroughputExceededException", "ThrottlingException"}
              ELSE FALSE
    ELSE FALSE

nextBackOffIgnoresContext(c, elapsed) == elapsed

\* b.NextBackOff() == backoff.Stop: the context-aware backoff stops when the
\* context is done, the exponential backoff when its elapsed time is used up
nextBackOffStop(c, elapsed) == c # "active" \/ elapsed

\* ctx.Err() of a done context
CtxErr(c) == IF c = "canceled" THEN NewError("context canceled")
             ELSE NewError("context deadline exceeded")

\* what one call of f can return: nil or a transport error
TransportError(status, code, attempt) ==
    [msg |-> "operation error DynamoDB: CreateTable", status |-> status, code |-> code, attempt |-> attempt]

FResults(attempt) ==
    {NilErr} \cup
    {TransportError(sc[1], sc[2], attempt) : sc \in
        { <<0, "">>, <<0, "ThrottlingException">>,
          <<400, "ThrottlingException">>, <<400, "ProvisionedThroughputExceededException">>,
          <<400, "ValidationException">>, <<400, "">>,
          <<404, "ThrottlingException">>, <<500, "">>, <<503, "InternalServerError">> }}

NotReturned == [returned |-> FALSE, err |-> NilErr]
Returned(err) == [returned |-> TRUE, err |-> err]
NoRequest == [built |-> FALSE]

(***************************************************************************)
(* Example values handed to CreateTable                                    *)
(***************************************************************************)
\* a zero time.Time: a struct of unexported fields with MarshalText and IsZero
TimeZero ==
    WithCap(GoStruct(<< Unexported(Field("wall", "", GoInt("uint64", 0))) >>),
            TextCap("0001-01-01T00:00:00Z", FALSE, "zero"))

\* a zero unixTime (query_test.go): MarshalDynamo returns a Number
UnixTimeZero ==
    WithCap(GoStruct(<< Embedded("Time", TimeZero) >>), MarshalerCap(AvN("-62135596800"), FALSE))

\* the UserAction struct of the comment on CreateTable
ExUserAction == GoStruct(<<
    Indexed(Field("UserID", "ID,hash", GoString("")), << "Seq-ID-index,range" >>, <<>>),
    Field("Time", ",range", TimeZero),
    Indexed(Field("Seq", "", GoInt("int64", 0)), << "Seq-ID-index,hash" >>, << "ID-Seq-index,range" >>),
    Indexed(Field("UUID", "", GoString("")), << "UUID-index,hash" >>, <<>>) >>)

ExHashRange == GoStruct(<<
    Field("ID", "ID,hash", GoString("")),
    Field("Seq", ",range", GoInt("int64", 0)) >>)

\* range declared before hash, with the synonyms sort and partition
ExRangeHash == GoStruct(<<
    Field("Seq", ",sort", GoInt("int64", 0)),
    Field("Skipped", "-,hash", GoString("")),
    Field("ID", "ID,omitempty,partition", GoString("")) >>)

\* range declared before hash in the table, a global and a local index
ExIndexOrders == GoStruct(<<
    Indexed(Field("When", ",range,unixtime", TimeZero), << "Seq-ID-index,range" >>, << "ID-Seq-index,range" >>),
    Indexed(Field("Key", ",hash", GoSlice(GoInt("uint8", 0), <<>>)), << "Seq-ID-index,hash" >>,
            << "ID-Seq-index,hash", "L1-index,range" >>) >>)

\* the range key comes from an embedded struct declared before the hash key
ExEmbedded == GoStruct(<<
    Embedded("Base", GoStruct(<< Field("Date", ",range", UnixTimeZero) >>)),
    Indexed(Field("ID", ",hash", GoNilPtr(GoInt("int", 0))), << "Seq-ID-index,hash" >>, <<>>) >>)

\* key fields whose type cannot be inferred
ExBadTypes == GoStruct(<<
    Field("Flag", ",hash", GoBool(FALSE)),
    Indexed(Field("Attrs", ",range", GoNilMap("string")), << "Seq-ID-index,hash" >>, <<>>) >>)

ExNoKeys == GoStruct(<< Field("Name", "", GoString("")) >>)
ExRangeOnly == GoStruct(<< Field("Seq", ",range", GoInt("int", 0)) >>)
ExNotStruct == GoInt("int", 5)
ExNilPtr == GoNilPtr(ExHashRange)
ExPtr == GoPtr(GoPtr(ExRangeHash))

Examples == {ExUserAction, ExHashRange, ExRangeHash, ExIndexOrders, ExEmbedded, ExBadTypes,
             ExNoKeys, ExRangeOnly, ExNotStruct, ExNilPtr, ExPtr}

\* arguments of the fluent calls
NewIndex(name, hashKey, hashKeyType, rangeKey, rangeKeyType, projectionType, local, read) ==
    [Name |-> name, HashKey |-> hashKey, HashKeyType |-> hashKeyType,
     RangeKey |-> rangeKey, RangeKeyType |-> rangeKeyType,
     ProjectionType |-> projectionType, ProjectionAttribs |-> << "Extra" >>,
     Local |-> local, Throughput |-> [Read |-> read, Write |-> 0]]

IndexArgs == { NewIndex("New-index", "ID", "N", "Other", "S", "", FALSE, 4),
               NewIndex("ID-Seq-index", "ID", "S", "", "", IncludeProjection, TRUE, 0),
               NewIndex("Bad-index", "Blob", "", "Seq", "N", KeysOnlyProjection, FALSE, 0) }

ProjectArgs == { << "Seq-ID-index", IncludeProjection, << "a", "b", "a" >> >>,
                 << "ID-Seq-index", KeysOnlyProjection, << "a" >> >>,
                 << "nope", KeysOnlyProjection, <<>> >>,
                 << "gone", IncludeProjection, << "a" >> >> }

ProvisionIndexArgs == { "Seq-ID-index", "nope" }

(***************************************************************************)
(* The state machine                                                       *)
(***************************************************************************)
NoValue == [kind |-> "none"]

MarshalIdle == min = NoValue /\ mout = NoValue

AppendIdle == srcItem = NoValue /\ target = NoValue /\ results = <<>> /\ appendErr = NotReturned

Init ==
    /\ example \in Examples
    /\ ct = CreateTable(example)
    /\ pc = "draft"
    /\ request = NoRequest
    /\ result = NotReturned
    /\ lastErr = NilErr
    /\ calls = 0
    /\ ctx = "active"
    /\ fluent = 0
    /\ MarshalIdle
    /\ AppendIdle

\* a fluent call on the draft leaves everything but the draft alone
FluentCall(c) ==
    /\ pc = "draft"
    /\ fluent < MaxFluent
    /\ ct' = c
    /\ fluent' = fluent + 1
    /\ UNCHANGED <<example, pc, request, result, lastErr, calls, ctx, min, mout, aVars>>

DoOnDemand == \E enabled \in BOOLEAN : FluentCall(OnDemand(ct, enabled))
DoProvision == FluentCall(Provision(ct, 5, 10))
DoProvisionIndex == \E index \in ProvisionIndexArgs : FluentCall(ProvisionIndex(ct, index, 2, 3))
DoStream == FluentCall(Stream(ct, "NEW_IMAGE"))
DoProject == \E a \in ProjectArgs : FluentCall(Project(ct, a[1], a[2], a[3]))
DoIndex == \E index \in IndexArgs : FluentCall(Index(ct, index))
DoTag == \E value \in {"v1", "v2"} : FluentCall(Tag(ct, "team", value))
DoSSEEncryption == FluentCall(SSEEncryption(ct, TRUE, "alias/key", "KMS"))

\* RunWithContext(ctx) up to the first call of f: the sticky error is
\* returned before anything else; otherwise input() builds the request (or
\* panics) and retry starts
RunWithContext ==
    /\ pc = "draft"
    /\ \E c \in {"active", "canceled", "deadline"} : ctx' = c
    /\ IF ct.err # NilErr
       THEN /\ result' = Returned(ct.err)
            /\ pc' = "done"
            /\ UNCHANGED <<ct, request>>
       ELSE LET in == input(ct)
            IN  IF in.panic
                THEN /\ pc' = "panic"
                     /\ UNCHANGED <<ct, request, result>>
                ELSE /\ pc' = "call"
                     /\ ct' = in.ct
                     /\ request' = [built |-> TRUE, input |-> in.input]
                     /\ UNCHANGED result
    /\ UNCHANGED <<example, lastErr, calls, fluent, min, mout, aVars>>

\* one turn of the loop of retry up to the sleep: f is called; nil and
\* errors that cannot be retried are returned; NextBackOff reports Stop when
\* the context is done or the backoff's own time is used up
RetryAttempt ==
    /\ pc = "call"
    /\ calls < MaxAttempts
    /\ \E err \in FResults(calls + 1), elapsed \in BOOLEAN :
        /\ calls + 1 = MaxAttempts => elapsed
        /\ calls' = calls + 1
        /\ lastErr' = err
        /\ IF err = NilErr THEN /\ result' = Returned(NilErr)
                                /\ pc' = "done"
           ELSE IF ~canRetry(err) THEN /\ result' = Returned(err)
                                       /\ pc' = "done"
           ELSE IF nextBackOffStop(ctx, elapsed) THEN /\ result' = Returned(err)
                                                  /\ pc' = "done"
           ELSE /\ pc' = "sleep"
                /\ UNCHANGED result
    /\ UNCHANGED <<example, ct, request, ctx, fluent, min, mout, aVars>>

\* aws.SleepWithContext returns nil when the timer fires first.  The sleep is
\* a select on the timer and on ctx.Done(): the goroutine is woken by the
\* first of the two events, so the timer branch is taken only while the
\* context is not done.
SleepWake ==
    /\ pc = "sleep"
    /\ ctx = "active"
    /\ lastErr' = NilErr
    /\ pc' = "call"
    /\ UNCHANGED <<example, ct, request, result, calls, ctx, fluent, min, mout, aVars>>

SleepAbortKeepsErr ==
    /\ pc = "sleep"
    /\ ctx # "active"
    /\ result' = Returned(lastErr)
    /\ pc' = "done"
    /\ UNCHANGED <<example, ct, request, lastErr, calls, ctx, fluent, min, mout, aVars>>

\* aws.SleepWithContext returns ctx.Err() when the context is done first
SleepAbort ==
    /\ pc = "sleep"
    /\ ctx # "active"
    /\ lastErr' = CtxErr(ctx)
    /\ result' = Returned(CtxErr(ctx))
    /\ pc' = "done"
    /\ UNCHANGED <<example, ct, request, calls, ctx, fluent, min, mout, aVars>>

\* the environment: the context is cancelled, or its deadline passes
Cancel ==
    /\ pc \in {"call", "sleep"}
    /\ ctx = "active"
    /\ ctx' = "canceled"
    /\ UNCHANGED <<example, ct, pc, request, result, lastErr, calls, fluent, min, mout, aVars>>

DeadlineExceeded ==
    /\ pc \in {"call", "sleep"}
    /\ ctx = "active"
    /\ ctx' = "deadline"
    /\ UNCHANGED <<example, ct, pc, request, result, lastErr, calls, fluent, min, mout, aVars>>

Next ==
    \/ DoOnDemand
    \/ DoProvision
    \/ DoProvisionIndex
    \/ DoStream
    \/ DoProject
    \/ DoIndex
    \/ DoTag
    \/ DoSSEEncryption
    \/ RunWithContext
    \/ RetryAttempt
    \/ SleepWake
    \/ SleepAbort
    \/ Cancel
    \/ DeadlineExceeded

Spec == Init /\ [][Next]_vars

\* every call of f returns, and a sleeping retry is woken by its timer or by
\* its context
SpecFair ==
    Spec /\ WF_vars(RetryAttempt) /\ WF_vars(SleepWake) /\ WF_vars(SleepAbort)

TypeOK ==
    /\ pc \in {"idle", "draft", "call", "sleep", "done", "panic"}
    /\ calls \in 0..MaxAttempts
    /\ fluent \in 0..MaxFluent

(***************************************************************************)
(* The marshal engine.  A call returns Ok(av) (av may be NilAv: "no        *)
(* value"), Err(msg) or, where reflection would panic, Panic.              *)
(***************************************************************************)
Ok(av) == [st |-> "ok", av |-> av]
OkItem(item) == [st |-> "ok", item |-> item]
Err(msg) == [st |-> "error", msg |-> msg]
Panic == [st |-> "panic"]

RECURSIVE TypeString(_)
\* rv.Type().String(), as far as the error messages need it
TypeString(v) ==
    IF v.kind = "ptr" THEN "*" \o TypeString(v.elem)
    ELSE IF v.kind = "slice" THEN "[]" \o TypeString(v.elem)
    ELSE IF v.kind = "map" THEN "map[" \o v.keyKind \o "]"
    ELSE IF v.kind = "interface" THEN "interface {}"
    ELSE v.kind

\* the interfaces seen through rv.Interface(): those of the dynamic value
\* for a value of interface kind
CapOf(v) ==
    IF v.kind = "interface" THEN (IF v.isNil THEN NoCap ELSE v.dyn.cap) ELSE v.cap

\* rv.Interface() == reflect.Zero(rv.Type()).Interface() for the kinds that
\* reach the last lines of isZero
EqualsZero(v) ==
    IF v.kind \in (IntKinds \cup UintKinds) THEN v.i = 0
    ELSE IF v.kind \in FloatKinds THEN v.f = 0
    ELSE IF v.kind = "string" THEN v.s = ""
    ELSE IF v.kind = "bool" THEN ~v.b
    ELSE v.isNil        \* ptr, interface, chan

RECURSIVE isZero(_, _)
RECURSIVE isZeroFields(_, _, _, _)
\* isZero(rv): "true", "false", or "panic" when rv.Interface() is called on a
\* value obtained through an unexported field
isZero(v, canInterface) ==
    IF canInterface /\ CapOf(v).zeroer # "none" THEN (IF CapOf(v).zeroer = "zero" THEN "true" ELSE "false")
    ELSE IF ~canInterface THEN "panic"
    ELSE IF CapOf(v).m \in {"marshaler", "text"} THEN "false"
    ELSE IF v.kind \in {"func", "map", "slice"} THEN (IF v.isNil THEN "true" ELSE "false")
    ELSE IF v.kind = "struct" THEN isZeroFields(v.fields, canInterface, 1, "true")
    ELSE IF EqualsZero(v) THEN "true" ELSE "false"

\* z = z && isZero(rv.Field(i)): a field is inspected only while z is true
isZeroFields(fields, canInterface, i, z) ==
    IF i > Len(fields) \/ z # "true" THEN z
    ELSE isZeroFields(fields, canInterface, i + 1,
                      isZero(fields[i].val, canInterface /\ fields[i].exported))

AutoOmitKinds == {"string", "ptr", "map", "slice", "interface"}

\* the switch at the head of the loop of marshalStruct: "skip", "keep", or
\* "panic"; the omitempty case inspects rv, the struct
omitField(rv, field) ==
    LET info == fieldInfo(field)
    IN  IF ~field.exported THEN "skip"
        ELSE IF info.name = "-" THEN "skip"
        ELSE IF info.omitempty
             THEN (LET z == isZero(rv, TRUE)
                   IN  IF z = "panic" THEN "panic" ELSE IF z = "true" THEN "skip" ELSE "keep")
        ELSE IF field.val.kind \in AutoOmitKinds
             THEN (LET z == isZero(field.val, TRUE)
                   IN  IF z = "panic" THEN "panic" ELSE IF z = "true" THEN "skip" ELSE "keep")
        ELSE "keep"

MergeKeepsItem(item, avs) ==
    [k \in DOMAIN item \cup DOMAIN avs |-> IF k \in DOMAIN item THEN item[k] ELSE avs[k]]

\* for k, v := range avs { item[k] = v }
Merge(item, avs) ==
    [k \in DOMAIN item \cup DOMAIN avs |-> IF k \in DOMAIN avs THEN avs[k] ELSE item[k]]

RECURSIVE marshal(_, _)
RECURSIVE marshalReflect(_, _)
RECURSIVE marshalStruct(_)
RECURSIVE marshalFields(_, _, _)
RECURSIVE marshalList(_, _, _)
RECURSIVE marshalSet(_)
RECURSIVE marshalTextSet(_, _, _)

\* the "byte slice is B" test of marshalReflect
isByteSlice(rv) == rv.elem.kind = "int8"

\* marshal(v, special), v being what fv.Interface() hands over
marshal(v, special) ==
    IF v.kind = "interface" THEN
        (IF v.isNil THEN Ok(AvNULL) ELSE marshal(v.dyn, special))
    ELSE IF v.cap.m = "marshaler" THEN
        (IF v.cap.mErr THEN Err("MarshalDynamo") ELSE Ok(v.cap.mAv))
    ELSE IF v.cap.m = "text" THEN
        (IF v.cap.mErr THEN Err("MarshalText")
         ELSE IF Len(v.cap.text) = 0 THEN Ok(NilAv)
         ELSE Ok(AvS(v.cap.text)))
    ELSE marshalReflect(v, special)

\* the loop of marshalReflect over the elements of a slice: every result is
\* appended, a nil one too
marshalList(elems, i, avs) ==
    IF i > Len(elems) THEN Ok(AvL(avs))
    ELSE LET r == marshal(elems[i], "")
         IN  IF r.st # "ok" THEN r ELSE marshalList(elems, i + 1, Append(avs, r.av))

marshalReflect(rv, special) ==
    IF rv.kind = "ptr" THEN
        (IF rv.isNil THEN Ok(AvNULL) ELSE marshal(rv.elem, special))
    ELSE IF rv.kind = "bool" THEN Ok(AvBOOL(rv.b))
    ELSE IF rv.kind \in IntKinds THEN Ok(AvN(FormatInt(rv.i)))
    ELSE IF rv.kind \in FloatKinds THEN Ok(AvN(FormatFloat(rv.f)))
    ELSE IF rv.kind = "string" THEN Ok(AvS(rv.s))
    ELSE IF rv.kind = "map" THEN
        (IF rv.keyKind # "string" THEN Err("dynamo marshal: map key must be string: " \o TypeString(rv))
         ELSE LET rs == [k \in DOMAIN rv.entries |-> marshal(rv.entries[k], "")]
                  bad == {k \in DOMAIN rs : rs[k].st # "ok"}
              IN  IF bad # {} THEN rs[CHOOSE k \in bad : TRUE]
                  ELSE Ok(AvM([k \in {x \in DOMAIN rs : rs[x].av # NilAv} |-> rs[k].av])))
    ELSE IF rv.kind = "struct" THEN
        (LET r == marshalStruct(rv)
         IN  IF r.st # "ok" THEN r ELSE Ok(AvM(r.item)))
    ELSE IF rv.kind = "slice" THEN
        (IF isByteSlice(rv)
         THEN (IF rv.elem.kind = "uint8" THEN Ok(AvB([i \in 1..Len(rv.elems) |-> rv.elems[i].i]))
               ELSE Panic)       \* reflect.Value.Bytes of non-byte slice
         ELSE IF special = "set" THEN marshalSet(rv)
         ELSE marshalList(rv.elems, 1, <<>>))
    ELSE Err("dynamo marshal: unknown type " \o TypeString(rv))

\* the encoding.TextMarshaler loop of marshalSet
marshalTextSet(elems, i, ss) ==
    IF i > Len(elems) THEN Ok(AvNS(ss))
    ELSE IF elems[i].cap.mErr THEN Err("MarshalText")
    ELSE marshalTextSet(elems, i + 1, Append(ss, elems[i].cap.text))

marshalSet(rv) ==
    IF rv.elem.kind # "interface" /\ rv.elem.cap.m = "text" THEN marshalTextSet(rv.elems, 1, <<>>)
    ELSE IF rv.elem.kind \in IntKinds
         THEN Ok(AvNS([i \in 1..Len(rv.elems) |-> FormatInt(rv.elems[i].i)]))
    ELSE IF rv.elem.kind \in FloatKinds
         THEN Ok(AvNS([i \in 1..Len(rv.elems) |-> FormatFloat(rv.elems[i].f)]))
    ELSE IF rv.elem.kind = "string"
         THEN Ok(AvNS([i \in 1..Len(rv.elems) |-> rv.elems[i].s]))
    ELSE IF rv.elem.kind = "slice" /\ rv.elem.kind = "int8"    \* both tests read rv.Type().Elem().Kind()
         THEN Ok(AvBS([i \in 1..Len(rv.elems) |->
                        [j \in 1..Len(rv.elems[i].elems) |-> rv.elems[i].elems[j].i]]))
    ELSE Err("dynamo marshal: unknown type for sets " \o TypeString(rv))

\* the loop of marshalStruct over the fields of rv
marshalFields(rv, i, item) ==
    IF i > Len(rv.fields) THEN OkItem(item)
    ELSE LET field == rv.fields[i]
             info == fieldInfo(field)
             omit == omitField(rv, field)
         IN  IF omit = "panic" THEN Panic
             ELSE IF omit = "skip" THEN marshalFields(rv, i + 1, item)
             ELSE IF field.val.kind = "struct" /\ field.anonymous
                  THEN (LET r == marshalStruct(field.val)
                        IN  IF r.st # "ok" THEN r
                            ELSE marshalFields(rv, i + 1, Merge(item, r.item)))
             ELSE LET r == marshal(field.val, info.special)
                  IN  IF r.st # "ok" THEN r
                      ELSE marshalFields(rv, i + 1,
                              IF r.av # NilAv THEN MapPut(item, info.name, r.av) ELSE item)

marshalStruct(v) ==
    IF v.kind # "struct"
    THEN (IF v.kind = "ptr"
          THEN (IF v.isNil THEN Panic ELSE marshalStruct(v.elem))
          ELSE Err("marshal struct invalid type: " \o TypeString(v)))
    ELSE marshalFields(v, 1, <<>>)

(***************************************************************************)
(* Values handed to marshalStruct and marshal                              *)
(***************************************************************************)
\* a time.Time that is set
TimeSet ==
    WithCap(GoStruct(<< Unexported(Field("wall", "", GoInt("uint64", 1))) >>),
            TextCap("2015-03-02T06:50:50Z", FALSE, "nonzero"))

\* all sequences of length at most n over the set S
SeqsUpTo(S, n) == UNION {[1..k -> S] : k \in 0..n}

Bytes(bs) == GoSlice(GoInt("uint8", 0), [i \in 1..Len(bs) |-> GoInt("uint8", bs[i])])

IntSlices == {GoSlice(GoInt("int", 0), [i \in 1..Len(q) |-> GoInt("int", q[i])]) : q \in SeqsUpTo({1, 20}, MaxLen)}
Int8Slices == {GoSlice(GoInt("int8", 0), [i \in 1..Len(q) |-> GoInt("int8", q[i])]) : q \in SeqsUpTo({-1}, 1)}
FloatSlices == {GoSlice(GoFloat(0), [i \in 1..Len(q) |-> GoFloat(q[i])]) : q \in SeqsUpTo({15, -20}, MaxLen)}
StringSlices == {GoSlice(GoString(""), [i \in 1..Len(q) |-> GoString(q[i])]) : q \in SeqsUpTo({"a", "b"}, MaxLen)}
ByteSlices == {Bytes(q) : q \in SeqsUpTo({0, 255}, MaxLen)}
TimeSlices == {GoSlice(TimeZero, q) : q \in SeqsUpTo({TimeSet, TimeZero}, MaxLen)}
ByteSliceSlices == {GoSlice(GoNilSlice(GoInt("uint8", 0)), q) : q \in SeqsUpTo({Bytes(<< 1 >>), Bytes(<< 1, 2 >>)}, MaxLen)}
BoolSlices == {GoSlice(GoBool(FALSE), q) : q \in SeqsUpTo({GoBool(TRUE)}, 1)}

NilSlices == {GoNilSlice(GoInt("int", 0)), GoNilSlice(GoString("")), GoNilSlice(GoInt("uint8", 0))}

Scalars ==
    {GoInt("int", n) : n \in {-3, 0, 12}} \cup {GoInt("uint", 0), GoInt("uint", 4)}
        \cup {GoFloat(0), GoFloat(15)} \cup {GoString(""), GoString("a")} \cup {GoBool(FALSE), GoBool(TRUE)}

Nilables ==
    {GoNilPtr(GoInt("int", 0)), GoPtr(GoInt("int", 5)), GoPtr(GoInt("int", 0)),
     GoNilMap("string"), GoMap("string", [k \in {"k"} |-> GoBool(TRUE)]), GoMap("int", <<>>),
     GoNilIface, GoIface(GoInt("int", 3)), GoIface(GoString(""))}

\* values of the fields of the structs handed to marshalStruct
FieldValues ==
    Scalars \cup Nilables \cup NilSlices \cup IntSlices \cup StringSlices \cup ByteSlices
        \cup {TimeZero, TimeSet, UnixTimeZero, GoStruct(<< Field("Hello", "", GoString("")) >>)}

FieldTags == {"", ",omitempty", "Alias,omitempty", ",set", ",omitempty,set"}

\* struct { A T `dynamo:"<tag>"`; B int; SkipThis string `dynamo:"-"` }
StructInputs ==
    {GoStruct(<< Field("A", tag, a), Field("B", "", b), Field("SkipThis", "-", GoString(skip)) >>) :
        tag \in FieldTags, a \in FieldValues, b \in {GoInt("int", 0), GoInt("int", 1)}, skip \in {"", "x"}}

\* type Embed struct { X T1; Y int }, an exported struct type to embed
EmbedValue(x, y) == GoStruct(<< Field("X", "", x), Field("Y", "", GoInt("int", y)) >>)

\* structs that embed Embed (or the unexported embedMe) and declare fields of
\* the same attribute names before it, after it, or both; the last shape
\* embeds two structs that both have X
EmbedInputs ==
    UNION { { GoStruct(<< Embedded("Embed", EmbedValue(x, 1)), Field("X", "", o) >>),
              GoStruct(<< Field("X", "", o), Embedded("Embed", EmbedValue(x, 1)) >>),
              GoStruct(<< Field("Other", "X", o), Embedded("Embed", EmbedValue(x, 1)),
                          Field("Y", "", GoInt("int", 7)) >>),
              GoStruct(<< Field("X", "", o), Unexported(Embedded("embedMe", EmbedValue(x, 1))) >>),
              GoStruct(<< Embedded("Embed", EmbedValue(x, 1)),
                          Embedded("Wrap", GoStruct(<< Embedded("Embed", EmbedValue(o, 3)) >>)) >>) } :
            x \in {GoInt("int", 1), GoString("in")}, o \in {GoInt("int", 2), GoString("out")} }

\* values handed to marshal, with the special modifier
MarshalInputs ==
    Scalars \cup Nilables \cup NilSlices \cup IntSlices \cup Int8Slices \cup FloatSlices \cup StringSlices
        \cup ByteSlices \cup TimeSlices \cup ByteSliceSlices \cup BoolSlices
        \cup {TimeZero, TimeSet, UnixTimeZero, GoChan}

Specials == {"", "set"}

(***************************************************************************)
(* The marshal calls as a state machine                                    *)
(***************************************************************************)
InitMarshal ==
    /\ example = GoInvalid
    /\ ct = NewCreateTable
    /\ pc = "idle"
    /\ request = NoRequest
    /\ result = NotReturned
    /\ lastErr = NilErr
    /\ calls = 0
    /\ ctx = "active"
    /\ fluent = 0
    /\ MarshalIdle
    /\ AppendIdle

DoMarshalStruct ==
    /\ MarshalIdle
    /\ \E v \in StructInputs \cup EmbedInputs :
        /\ min' = [fn |-> "marshalStruct", v |-> v, special |-> ""]
        /\ mout' = marshalStruct(v)
    /\ UNCHANGED <<ctVars, aVars>>

DoMarshal ==
    /\ MarshalIdle
    /\ \E v \in MarshalInputs, special \in Specials :
        /\ min' = [fn |-> "marshal", v |-> v, special |-> special]
        /\ mout' = marshal(v, special)
    /\ UNCHANGED <<ctVars, aVars>>

NextMarshal == DoMarshalStruct \/ DoMarshal

SpecMarshal == InitMarshal /\ [][NextMarshal]_vars

(***************************************************************************)
(* unmarshalAppend: decode one item and append it to the target slice      *)
(***************************************************************************)
IsDigit(c) == \E d \in 0..9 : Digit(d) = c
DigitValue(c) == CHOOSE d \in 0..9 : Digit(d) = c

RECURSIVE ParseNat(_, _, _)
\* the decimal digits of s from position i on, n being the value so far;
\* not ok on an empty text or on a character that is no digit
ParseNat(s, i, n) ==
    IF Len(s) = 0 THEN [ok |-> FALSE, n |-> 0]
    ELSE IF i > Len(s) THEN [ok |-> TRUE, n |-> n]
    ELSE IF ~IsDigit(Char(s, i)) THEN [ok |-> FALSE, n |-> 0]
    ELSE ParseNat(s, i + 1, 10 * n + DigitValue(Char(s, i)))

\* strconv.ParseInt(s, 10, 64)
ParseInt(s) ==
    IF Len(s) > 0 /\ Char(s, 1) = "-"
    THEN (LET r == ParseNat(SubSeq(s, 2, Len(s)), 1, 0) IN [ok |-> r.ok, n |-> -r.n])
    ELSE ParseNat(s, 1, 0)

\* strconv.ParseFloat(s, 64) of an integer text, in tenths
ParseFloat(s) == LET r == ParseInt(s) IN [ok |-> r.ok, n |-> 10 * r.n]

DecodeOk(v) == [st |-> "ok", v |-> v]

\* decoding into interface{}: Number becomes a float, String and Boolean pass
\* through, Null becomes nil
decodeIface(av) ==
    IF av.t = "N"
    THEN (LET r == ParseFloat(av.n)
          IN  IF r.ok THEN DecodeOk(GoIface(GoFloat(r.n))) ELSE Err("invalid number: " \o av.n))
    ELSE IF av.t = "S" THEN DecodeOk(GoIface(GoString(av.s)))
    ELSE IF av.t = "BOOL" THEN DecodeOk(GoIface(GoBool(av.bool)))
    ELSE IF av.t = "NULL" THEN DecodeOk(GoNilIface)
    ELSE Err("cannot unmarshal " \o av.t)

\* decoding one attribute into a value of the kind of rv; a Null leaves the
\* zero value, a variant the kind cannot hold is an error
unmarshalReflect(av, rv) ==
    IF rv.kind = "interface" THEN decodeIface(av)
    ELSE IF av.t = "NULL" THEN DecodeOk(rv)
    ELSE IF rv.kind \in (IntKinds \cup UintKinds)
    THEN (IF av.t # "N" THEN Err("cannot unmarshal " \o av.t \o " into " \o rv.kind)
          ELSE LET r == ParseInt(av.n)
               IN  IF ~r.ok \/ (rv.kind \in UintKinds /\ r.n < 0)
                   THEN Err("invalid number: " \o av.n)
                   ELSE DecodeOk(GoInt(rv.kind, r.n)))
    ELSE IF rv.kind = "string"
    THEN (IF av.t = "S" THEN DecodeOk(GoString(av.s))
          ELSE Err("cannot unmarshal " \o av.t \o " into " \o rv.kind))
    ELSE IF rv.kind = "bool"
    THEN (IF av.t = "BOOL" THEN DecodeOk(GoBool(av.bool))
          ELSE Err("cannot unmarshal " \o av.t \o " into " \o rv.kind))
    ELSE Err("cannot unmarshal " \o av.t \o " into " \o rv.kind)

RECURSIVE unmarshalFields(_, _, _)
\* the fields of the element are filled one after the other from the
\* attributes of their names; the first error ends the decoding
unmarshalFields(it, rv, i) ==
    IF i > Len(rv.fields) THEN DecodeOk(rv)
    ELSE LET field == rv.fields[i]
             name == fieldInfo(field).name
         IN  IF ~field.exported \/ name = "-" \/ name \notin DOMAIN it
             THEN unmarshalFields(it, rv, i + 1)
             ELSE LET r == unmarshalReflect(it[name], field.val)
                  IN  IF r.st # "ok" THEN r
                      ELSE unmarshalFields(it, [rv EXCEPT !.fields[i].val = r.v], i + 1)

\* decoding into map[string]interface{}: one entry per attribute
unmarshalMap(it) ==
    IF \E k \in DOMAIN it : decodeIface(it[k]).st # "ok"
    THEN decodeIface(it[CHOOSE k \in DOMAIN it : decodeIface(it[k]).st # "ok"])
    ELSE DecodeOk(GoMap("string", [k \in DOMAIN it |-> decodeIface(it[k]).v]))

\* unmarshal(item, out), out pointing to a value of the kind of zero
unmarshal(it, zero) ==
    IF zero.kind = "struct" THEN unmarshalFields(it, zero, 1)
    ELSE IF zero.kind = "map" THEN unmarshalMap(it)
    ELSE Err("cannot unmarshal item into " \o zero.kind)

unmarshalAppendPartial(it, rs, zero) ==
    LET r == unmarshal(it, zero)
    IN  IF r.st # "ok" THEN [err |-> NewError(r.msg), results |-> Append(rs, zero)]
        ELSE [err |-> NilErr, results |-> Append(rs, r.v)]

\* unmarshalAppend(item, &results): a new element is decoded from the item
\* and appended; on an error the slice is left as it was
unmarshalAppend(it, rs, zero) ==
    LET r == unmarshal(it, zero)
    IN  IF r.st # "ok" THEN [err |-> NewError(r.msg), results |-> rs]
        ELSE [err |-> NilErr, results |-> Append(rs, r.v)]

\* the element types of TestUnmarshalAppend
AppendStruct ==
    GoStruct(<< Field("User", "UserID", GoInt("int", 0)), Field("Page", "", GoInt("int", 0)),
                Field("Limit", "", GoInt("uint", 0)), Field("Null", "", GoNilIface) >>)

AppendTargets == {AppendStruct, GoNilMap("string")}

\* the item of TestUnmarshalAppend
NewItem(id, page, limit, null) ==
    MapPut(MapPut(MapPut(MapPut(<<>>, "UserID", id), "Page", page), "Limit", limit), "Null", null)

TestItem == NewItem(AvN("12345"), AvN("5"), AvN("20"), AvNULL)

\* the item, other numbers, and items one attribute of which cannot be
\* decoded into its field
AppendItems ==
    { NewItem(id, page, limit, null) :
        id \in {AvN("12345"), AvN("0"), AvN("-7")},
        page \in {AvN("5"), AvS("five"), AvN("5x")},
        limit \in {AvN("20"), AvN("-1")},
        null \in {AvNULL, AvBOOL(TRUE)} }

\* an item no target can take: its Page is a list
BadItem == NewItem(AvN("1"), AvL(<<>>), AvN("2"), AvNULL)

InitAppend ==
    /\ example = GoInvalid
    /\ ct = NewCreateTable
    /\ pc = "idle"
    /\ request = NoRequest
    /\ result = NotReturned
    /\ lastErr = NilErr
    /\ calls = 0
    /\ ctx = "active"
    /\ fluent = 0
    /\ MarshalIdle
    /\ srcItem \in AppendItems
    /\ target \in AppendTargets
    /\ results = <<>>
    /\ appendErr = NotReturned

\* one call unmarshalAppend(it, &results)
AppendCall(it) ==
    /\ target # NoValue
    /\ Len(results) < MaxAppend
    /\ LET r == unmarshalAppend(it, results, target)
       IN  /\ results' = r.results
           /\ appendErr' = Returned(r.err)
    /\ UNCHANGED <<ctVars, mVars, srcItem, target>>

\* the loop of the test: the same item again
DoUnmarshalAppend == AppendCall(srcItem)

\* a call with another item between two calls of the loop
DoUnmarshalAppendBad == AppendCall(BadItem)

NextAppend == DoUnmarshalAppend \/ DoUnmarshalAppendBad

SpecAppend == InitAppend /\ [][NextAppend]_vars

(***************************************************************************)
(* Properties of the draft and of RunWithContext                           *)
(***************************************************************************)
OneHashOneRange(ks) ==
    Len(ks) = 2 /\ {ks[1].KeyType, ks[2].KeyType} = {KeyTypeHash, KeyTypeRange}

HashThenRange(ks) ==
    Len(ks) = 2 /\ ks[1].KeyType = KeyTypeHash /\ ks[2].KeyType = KeyTypeRange

\* C1: in every request built from an example that declares one hash and one
\* range key, in either order, the table key schema is HASH at index 0 and
\* RANGE at index 1; so is the key schema of every global and local secondary
\* index of the request that holds one hash and one range entry.
C1_KeyOrdering ==
    request.built =>
        /\ OneHashOneRange(CreateTable(example).schema) => HashThenRange(request.input.KeySchema)
        /\ \A n \in DOMAIN request.input.GlobalSecondaryIndexes :
              OneHashOneRange(request.input.GlobalSecondaryIndexes[n].KeySchema)
                  => HashThenRange(request.input.GlobalSecondaryIndexes[n].KeySchema)
        /\ \A n \in DOMAIN request.input.LocalSecondaryIndexes :
              OneHashOneRange(request.input.LocalSecondaryIndexes[n].KeySchema)
                  => HashThenRange(request.input.LocalSecondaryIndexes[n].KeySchema)

\* a request built from an example that declares range before hash in the
\* table, in a global index and in a local index
C1_Witness ==
    /\ request.built
    /\ example = ExIndexOrders
    /\ CreateTable(example).schema[1].KeyType = KeyTypeRange
    /\ CreateTable(example).globalIndices["Seq-ID-index"].KeySchema[1].KeyType = KeyTypeRange
    /\ CreateTable(example).localIndices["ID-Seq-index"].KeySchema[1].KeyType = KeyTypeRange
    /\ HashThenRange(request.input.KeySchema)
    /\ HashThenRange(request.input.GlobalSecondaryIndexes["Seq-ID-index"].KeySchema)
    /\ HashThenRange(request.input.LocalSecondaryIndexes["ID-Seq-index"].KeySchema)
    /\ HashThenRange(request.input.LocalSecondaryIndexes["L1-index"].KeySchema)

\* C2: the sticky error is the first error any operation recorded, no step
\* changes it once it is set, and it is what RunWithContext returns.
C2_FirstErrorWins ==
    /\ [](/\ ct.err = (IF ct.recorded = <<>> THEN NilErr ELSE Head(ct.recorded))
          /\ (result.returned /\ ct.recorded # <<>>) => result.err = Head(ct.recorded))
    /\ [][ct.err # NilErr => ct'.err = ct.err]_vars

\* three different errors were recorded, by the walk and by fluent calls, and
\* Run returned the first
C2_Witness ==
    /\ Len(ct.recorded) >= 3
    /\ ct.recorded[1] # ct.recorded[2]
    /\ ct.recorded[Len(ct.recorded)] \notin {ct.recorded[1], ct.recorded[2]}
    /\ fluent > 0
    /\ result = Returned(ct.recorded[1])

RECURSIVE IsStructExample(_)
IsStructExample(v) ==
    IF v.kind = "struct" THEN TRUE
    ELSE IF v.kind = "ptr" THEN (~v.isNil /\ IsStructExample(v.elem))
    ELSE FALSE

\* C3: an example that is neither a struct nor a pointer to one yields a draft
\* with the error recorded (fluent calls still apply to it), and
\* RunWithContext on a draft whose sticky error is set returns that error,
\* builds no request and calls the remote CreateTable zero times.
C3_DeferredError ==
    /\ ~IsStructExample(example) => ct.err = ErrNotStruct
    /\ (pc # "draft" /\ ct.err # NilErr) =>
          /\ pc = "done"
          /\ result = Returned(ct.err)
          /\ request = NoRequest
          /\ calls = 0

\* a non-struct example, chained fluent calls, then Run returned the error
C3_Witness ==
    /\ example = ExNotStruct
    /\ fluent = MaxFluent
    /\ ct.ondemand
    /\ pc = "done"
    /\ result = Returned(ErrNotStruct)
    /\ calls = 0

(***************************************************************************)
(* Properties of retry                                                     *)
(***************************************************************************)
\* the classification as the interface section states it
Retryable(err) ==
    \/ err.status \in {500, 503}
    \/ err.status = 400 /\ err.code \in {"ProvisionedThroughputExceededException", "ThrottlingException"}

\* C4: a call of f is followed by a sleep (and so by another attempt) only if
\* its error is retryable; nil and every other error end retry at once with
\* that very result; f is never called after retry has returned.
C4_RetryClassification ==
    [][/\ (pc = "call" /\ calls' = calls + 1) =>
            /\ lastErr' = NilErr => (pc' = "done" /\ result' = Returned(NilErr))
            /\ (lastErr' # NilErr /\ ~Retryable(lastErr')) =>
                    (pc' = "done" /\ result' = Returned(lastErr'))
            /\ pc' = "sleep" => Retryable(lastErr')
       /\ (pc' = "call" /\ pc # "call" /\ calls > 0) => pc = "sleep"
       /\ pc = "done" => (pc' = "done" /\ calls' = calls /\ result' = result)]_vars

\* the second attempt failed with an error that has a status but is not
\* retryable, and retry returned it
C4_Witness ==
    /\ pc = "done"
    /\ calls = 2
    /\ result.err.attempt = 2
    /\ result.err.status = 400
    /\ result.err.code = "ValidationException"

\* C5: when the context is cancelled during the sleep between two attempts,
\* retry returns the context's cancellation error, not the error of the
\* previous attempt, and f is not called again.
C5_CancelDuringBackoff ==
    [][(pc = "sleep" /\ ctx = "canceled") =>
            /\ pc' = "done"
            /\ result' = Returned(NewError("context canceled"))
            /\ result'.err # lastErr
            /\ calls' = calls]_vars

\* retry slept after a failed attempt, was cancelled and returned
C5_Witness ==
    /\ pc = "done"
    /\ ctx = "canceled"
    /\ calls = 2
    /\ result = Returned(NewError("context canceled"))

\* C6 as stated: when every attempt failed with a retryable error and the
\* deadline was reached, retry returns the error of the most recent call of f
C6_LastErrorAtDeadline ==
    (/\ pc = "done"
     /\ calls > 0
     /\ ctx = "deadline"
     /\ result.err # NilErr
     /\ (result.err.attempt = 0 \/ Retryable(result.err)))
        => (result.err.attempt = calls /\ result.err # CtxErr("deadline"))

\* C6 amended: a deadline found when the next backoff is computed makes retry
\* return the error of the most recent call of f, unchanged; a deadline that
\* passes during the sleep makes retry return the context's deadline error.
C6_DeadlineAmended ==
    [][/\ (pc = "call" /\ calls' = calls + 1 /\ ctx = "deadline" /\ Retryable(lastErr')) =>
            /\ pc' = "done"
            /\ result' = Returned(lastErr')
            /\ lastErr'.attempt = calls'
       /\ (pc = "sleep" /\ ctx = "deadline") =>
            /\ pc' = "done"
            /\ result' = Returned(CtxErr("deadline"))
            /\ calls' = calls]_vars

\* the deadline passed during a sleep and retry returned the deadline error
C6_Witness ==
    /\ pc = "done"
    /\ ctx = "deadline"
    /\ calls >= 1
    /\ result = Returned(CtxErr("deadline"))

(***************************************************************************)
(* Properties of the marshal engine                                        *)
(***************************************************************************)
RECURSIVE IsZeroValue(_)
\* the value is the zero value of its kind
IsZeroValue(v) ==
    IF v.kind \in (IntKinds \cup UintKinds) THEN v.i = 0
    ELSE IF v.kind \in FloatKinds THEN v.f = 0
    ELSE IF v.kind = "string" THEN v.s = ""
    ELSE IF v.kind = "bool" THEN ~v.b
    ELSE IF v.kind = "struct" THEN \A i \in 1..Len(v.fields) : IsZeroValue(v.fields[i].val)
    ELSE v.isNil

MarshalStructReturned == min # NoValue /\ min.fn = "marshalStruct" /\ mout.st = "ok"
MarshalCalled == min # NoValue /\ min.fn = "marshal"

\* an exported field that is not excluded by "-" and whose type has no
\* IsZero, MarshalDynamo or MarshalText of its own
PlainField(f) == f.exported /\ fieldInfo(f).name # "-" /\ CapOf(f.val) = NoCap

\* C7: in the map marshalStruct returns, a field tagged omitempty is absent
\* when it holds the zero value of its kind, whatever the other fields hold,
\* and present when it does not.
C7_OmitEmpty ==
    MarshalStructReturned =>
        \A i \in 1..Len(min.v.fields) :
            (PlainField(min.v.fields[i]) /\ fieldInfo(min.v.fields[i]).omitempty) =>
                (IsZeroValue(min.v.fields[i].val) <=> fieldInfo(min.v.fields[i]).name \notin DOMAIN mout.item)

\* C8: a field of kind string, pointer, map, slice or interface that holds
\* the zero value is absent from the map marshalStruct returns, with or
\* without omitempty, and never written as Null; an integer 0 without
\* omitempty is present as Number "0".
C8_AutoOmission ==
    MarshalStructReturned =>
        \A i \in 1..Len(min.v.fields) :
            LET f == min.v.fields[i]
                name == fieldInfo(f).name
            IN  PlainField(f) =>
                    /\ (f.val.kind \in AutoOmitKinds /\ IsZeroValue(f.val)) => name \notin DOMAIN mout.item
                    /\ (f.val.kind \in IntKinds /\ f.val.i = 0 /\ ~fieldInfo(f).omitempty) =>
                            (name \in DOMAIN mout.item /\ mout.item[name] = AvN("0"))

\* C9: marshal of a slice with the modifier "set" gives a StringSet for
\* strings and text-marshalers, a NumberSet for integers and floats, a
\* BinarySet for byte slices and an error for any other element kind, with
\* one encoded value per element, in input order, duplicates included.
C9_SetEncoding ==
    (MarshalCalled /\ min.special = "set" /\ min.v.kind = "slice" /\ min.v.elem.kind # "uint8") =>
        LET v == min.v
            n == Len(v.elems)
        IN  IF v.elem.cap.m = "text"
            THEN mout = Ok(AvSS([i \in 1..n |-> v.elems[i].cap.text]))
            ELSE IF v.elem.kind = "string"
            THEN mout = Ok(AvSS([i \in 1..n |-> v.elems[i].s]))
            ELSE IF v.elem.kind \in IntKinds
            THEN mout = Ok(AvNS([i \in 1..n |-> FormatInt(v.elems[i].i)]))
            ELSE IF v.elem.kind \in FloatKinds
            THEN mout = Ok(AvNS([i \in 1..n |-> FormatFloat(v.elems[i].f)]))
            ELSE IF v.elem.kind = "slice" /\ v.elem.elem.kind = "uint8"
            THEN mout = Ok(AvBS([i \in 1..n |-> [j \in 1..Len(v.elems[i].elems) |-> v.elems[i].elems[j].i]]))
            ELSE mout.st = "error"

\* C10: marshal of a slice of bytes returns the Binary variant holding those
\* bytes, whatever the special modifier.
C10_ByteSliceBinary ==
    (MarshalCalled /\ min.v.kind = "slice" /\ min.v.elem.kind = "uint8") =>
        mout = Ok(AvB([i \in 1..Len(min.v.elems) |-> min.v.elems[i].i]))

(***************************************************************************)
(* Properties of attribute registration                                    *)
(***************************************************************************)
\* the draft holds a declaration of `name` with a scalar type other than typ
Conflicts(c, name, typ) ==
    /\ typ # ""
    /\ \E i \in 1..Len(c.attribs) :
          c.attribs[i].AttributeName = name /\ c.attribs[i].AttributeType # typ

\* the Index call registers a key whose type differs from the declared one
IndexConflicts(c, index) ==
    \/ Conflicts(c, index.HashKey, index.HashKeyType)
    \/ index.RangeKey # "" /\ Conflicts(c, index.RangeKey, index.RangeKeyType)

\* the step is the fluent call Index(index) on the draft
IndexStep(index) == pc = "draft" /\ fluent' = fluent + 1 /\ ct' = Index(ct, index)

\* the positions of the declarations of `name`
DeclarationsOf(c, name) ==
    { i \in 1..Len(c.attribs) : c.attribs[i].AttributeName = name }

\* C11 as stated: an Index call that registers an attribute name with a type
\* different from the one already declared sets the draft's sticky error at
\* that registration.
C11_ConflictIsError ==
    [][\A index \in IndexArgs :
          (IndexStep(index) /\ IndexConflicts(ct, index)) => ct'.err # NilErr]_vars

\* C11 amended: a name is declared at most once; a later registration of a
\* declared name, with the same type or with another one, keeps the first
\* declaration as it is and sets no error.
C11_FirstTypeKept ==
    /\ [](\A i, j \in 1..Len(ct.attribs) :
            ct.attribs[i].AttributeName = ct.attribs[j].AttributeName => i = j)
    /\ [][\A index \in IndexArgs :
            (IndexStep(index) /\ index.HashKeyType # ""
                /\ \E i \in 1..Len(ct.attribs) : ct.attribs[i].AttributeName = index.HashKey) =>
                /\ \A i \in 1..Len(ct.attribs) : ct'.attribs[i] = ct.attribs[i]
                /\ Cardinality(DeclarationsOf(ct', index.HashKey)) = 1
                /\ (index.RangeKey = "" \/ index.RangeKeyType # "") => ct'.err = ct.err]_vars

\* a request was built from a draft on which Index declared hash key "ID" as N
\* after the struct had declared "ID" as S: no error, and "ID" is still S
C11_Witness ==
    /\ request.built
    /\ ct.err = NilErr
    /\ "New-index" \in DOMAIN request.input.GlobalSecondaryIndexes
    /\ request.input.GlobalSecondaryIndexes["New-index"].KeySchema[1].AttributeName = "ID"
    /\ Cardinality(DeclarationsOf(ct, "ID")) = 1
    /\ \E i \in 1..Len(request.input.AttributeDefinitions) :
          request.input.AttributeDefinitions[i] = [AttributeName |-> "ID", AttributeType |-> "S"]

(***************************************************************************)
(* Properties of the embedding merge                                       *)
(***************************************************************************)
\* the field is an anonymous embedded struct that marshalStruct reaches
IsEmbedded(f) == f.val.kind = "struct" /\ f.anonymous

\* the entries one field of the struct v brings to the map: none when the
\* field is left out, those of the embedded struct, or its own attribute
Entries(v, f) ==
    IF omitField(v, f) # "keep" THEN <<>>
    ELSE IF IsEmbedded(f) THEN marshalStruct(f.val).item
    ELSE LET av == marshal(f.val, fieldInfo(f).special).av
         IN  IF av = NilAv THEN <<>> ELSE MapPut(<<>>, fieldInfo(f).name, av)

\* C12: the map marshalStruct returns for a struct with an exported embedded
\* struct holds the entries of every field, the embedded ones flattened in,
\* and on a name collision the value of the field declared later.
C12_EmbeddingMerge ==
    (MarshalStructReturned /\ \E i \in 1..Len(min.v.fields) : IsEmbedded(min.v.fields[i])) =>
        LET fields == min.v.fields
        IN  /\ DOMAIN mout.item = UNION { DOMAIN Entries(min.v, fields[i]) : i \in 1..Len(fields) }
            /\ \A i \in 1..Len(fields) : \A k \in DOMAIN Entries(min.v, fields[i]) :
                  (\A j \in (i + 1)..Len(fields) : k \notin DOMAIN Entries(min.v, fields[j]))
                      => mout.item[k] = Entries(min.v, fields[i])[k]

\* struct { Other T `dynamo:"X"`; Embed; Y int }: X is the embedded value,
\* which is declared after Other, and Y is the outer value, which is
\* declared after Embed
C12_Witness ==
    /\ MarshalStructReturned
    /\ Len(min.v.fields) = 3
    /\ min.v.fields[1].val = GoString("out")
    /\ IsEmbedded(min.v.fields[2])
    /\ min.v.fields[2].val = EmbedValue(GoInt("int", 1), 1)
    /\ mout.item = MapPut(MapPut(<<>>, "X", AvN("1")), "Y", AvN("7"))

(***************************************************************************)
(* Properties of the append-decode                                         *)
(***************************************************************************)
\* the decoded value of the item of TestUnmarshalAppend, as a struct element
\* and as a map element
TestElement ==
    GoStruct(<< Field("User", "UserID", GoInt("int", 12345)), Field("Page", "", GoInt("int", 5)),
                Field("Limit", "", GoInt("uint", 20)), Field("Null", "", GoNilIface) >>)

TestMapElement ==
    GoMap("string", NewItem(GoIface(GoFloat(123450)), GoIface(GoFloat(50)),
                            GoIface(GoFloat(200)), GoNilIface))

\* C13: every call of unmarshalAppend that returns nil appends exactly one
\* element and leaves the earlier ones as they were, a call that returns an
\* error leaves the sequence as it was; all elements decoded from the same
\* item are equal, and for the item of the test they are its decoded value.
C13_AppendWhole ==
    /\ [](/\ \A i \in 1..Len(results) : results[i] = results[1]
          /\ (srcItem = TestItem /\ target = AppendStruct) =>
                \A i \in 1..Len(results) : results[i] = TestElement
          /\ (srcItem = TestItem /\ target = GoNilMap("string")) =>
                \A i \in 1..Len(results) : results[i] = TestMapElement)
    /\ [][/\ appendErr' = Returned(NilErr) =>
                /\ Len(results') = Len(results) + 1
                /\ SubSeq(results', 1, Len(results)) = results
          /\ appendErr' # Returned(NilErr) => results' = results]_vars

\* the loop of the test has run: 15 elements decoded from its item
C13_Witness ==
    /\ srcItem = TestItem
    /\ target = AppendStruct
    /\ appendErr = Returned(NilErr)
    /\ Len(results) = MaxAppend
    /\ results[MaxAppend] = TestElement

(***************************************************************************)
(* Termination of retry                                                    *)
(***************************************************************************)
\* C14: once retry has started it returns, whatever f returns and whenever
\* the context is done, after at most MaxAttempts calls of f; f is not
\* called after the backoff reported Stop or the sleep reported the context
\* done, that is, after retry returned.
C14_RetryTerminates ==
    /\ (pc \in {"call", "sleep"}) ~> (pc = "done" /\ result.returned)
    /\ [](calls <= MaxAttempts)
    /\ [][pc = "done" => calls' = calls]_vars
    /\ [][(pc = "call" /\ calls' = calls + 1 /\ ctx # "active") => pc' = "done"]_vars
    /\ [][(pc = "sleep" /\ ctx # "active") => (pc' = "done" /\ calls' = calls)]_vars

\* every attempt failed with a retryable error and retry returned the last
\* one when the backoff reported Stop
C14_Witness ==
    /\ pc = "done"
    /\ calls = MaxAttempts
    /\ Retryable(result.err)
    /\ result.err.attempt = MaxAttempts

(***************************************************************************)
(* Finalization of error-free drafts                                       *)
(***************************************************************************)
\* the step is RunWithContext on a draft whose sticky error is unset
RunsErrorFree == pc = "draft" /\ pc' # "draft" /\ ct.err = NilErr

\* C15 as stated: RunWithContext on a draft whose sticky error is unset
\* builds the request without faulting, and the table key schema of the
\* request is non-empty with a HASH entry at index 0.
C15_FinalizationTotal ==
    (pc \in {"call", "sleep", "done", "panic"} /\ ct.err = NilErr) =>
        /\ pc # "panic"
        /\ request.built
        /\ Len(request.input.KeySchema) > 0
        /\ request.input.KeySchema[1].KeyType = KeyTypeHash

\* a key schema sortKeySchemas can take: not empty and not a lone RANGE entry
Sortable(ks) == Len(ks) > 0 /\ ~(Len(ks) = 1 /\ ks[1].KeyType = KeyTypeRange)

\* one of the first two entries of the key schema is a HASH entry
HashInFront(ks) == \E i \in 1..Len(ks) : i <= 2 /\ ks[i].KeyType = KeyTypeHash

\* C15 amended: RunWithContext on a draft whose sticky error is unset builds
\* the request exactly when the table key schema and the key schema of every
\* global index are non-empty and no lone RANGE entry, and faults otherwise;
\* the table key schema of a request is non-empty, with a HASH entry at index
\* 0 when one of the first two declared table keys is a hash key.
C15_FinalizationAmended ==
    [][RunsErrorFree =>
        IF Sortable(ct.schema)
              /\ \A n \in DOMAIN ct.globalIndices : Sortable(ct.globalIndices[n].KeySchema)
        THEN /\ pc' = "call"
             /\ request'.built
             /\ Len(request'.input.KeySchema) > 0
             /\ HashInFront(ct.schema) => request'.input.KeySchema[1].KeyType = KeyTypeHash
        ELSE /\ pc' = "panic"
             /\ ~request'.built]_vars

\* a request built from the example of the package documentation after two
\* fluent calls, and its table key schema
C15_Witness ==
    /\ example = ExUserAction
    /\ fluent = MaxFluent
    /\ pc = "call"
    /\ ct.err = NilErr
    /\ request.built
    /\ request.input.KeySchema[1].KeyType = KeyTypeHash

(***************************************************************************)
(* Configuration calls on index names                                      *)
(***************************************************************************)
\* the step is the fluent call ProvisionIndex(index, 2, 3) on the draft
ProvisionIndexStep(index) ==
    pc = "draft" /\ fluent' = fluent + 1 /\ ct' = ProvisionIndex(ct, index, 2, 3)

\* the step is the fluent call Project(index, projection, attribs...) on the draft
ProjectStep(a) ==
    pc = "draft" /\ fluent' = fluent + 1 /\ ct' = Project(ct, a[1], a[2], a[3])

\* the draft holds no index of that name, global or local
Undeclared(c, index) == index \notin (DOMAIN c.globalIndices \cup DOMAIN c.localIndices)

\* every global secondary index of the request has a key schema, and they
\* are the global indexes of the draft
RequestIndexesDeclared ==
    request.built =>
        /\ DOMAIN request.input.GlobalSecondaryIndexes = DOMAIN ct.globalIndices
        /\ \A n \in DOMAIN request.input.GlobalSecondaryIndexes :
              Len(request.input.GlobalSecondaryIndexes[n].KeySchema) > 0

\* C16 as stated: ProvisionIndex, like Project, applied to an index name the
\* draft does not hold adds no index to the draft; every global secondary
\* index of a request has a non-empty key schema.
C16_NoInventedIndex ==
    /\ [][\A index \in ProvisionIndexArgs :
            (ProvisionIndexStep(index) /\ Undeclared(ct, index)) =>
                DOMAIN ct'.globalIndices = DOMAIN ct.globalIndices]_vars
    /\ [][\A a \in ProjectArgs :
            (ProjectStep(a) /\ Undeclared(ct, a[1])) =>
                DOMAIN ct'.globalIndices = DOMAIN ct.globalIndices]_vars
    /\ []RequestIndexesDeclared

\* C16 amended: Project applied to an index name the draft does not hold
\* adds no index and records the no-such-index error; ProvisionIndex applied
\* to such a name adds a global index of that name with an empty key schema
\* and the given throughput and records no error; every global secondary
\* index of a request has a non-empty key schema.
C16_ProvisionIndexAdds ==
    /\ [][\A index \in ProvisionIndexArgs :
            (ProvisionIndexStep(index) /\ Undeclared(ct, index)) =>
                /\ DOMAIN ct'.globalIndices = DOMAIN ct.globalIndices \cup {index}
                /\ ct'.globalIndices[index].KeySchema = <<>>
                /\ ct'.globalIndices[index].ProvisionedThroughput = Throughput(2, 3)
                /\ ct'.err = ct.err]_vars
    /\ [][\A a \in ProjectArgs :
            (ProjectStep(a) /\ Undeclared(ct, a[1])) =>
                /\ ct'.globalIndices = ct.globalIndices
                /\ ct'.localIndices = ct.localIndices
                /\ ct'.err # NilErr]_vars
    /\ []RequestIndexesDeclared

\* ProvisionIndex("nope", 2, 3) on a draft without an index of that name:
\* the draft holds the index, with no key schema and no error
C16_Witness ==
    /\ pc = "draft"
    /\ fluent = 1
    /\ ct.err = NilErr
    /\ "nope" \notin DOMAIN CreateTable(example).globalIndices
    /\ "nope" \in DOMAIN ct.globalIndices
    /\ ct.globalIndices["nope"].KeySchema = <<>>
    /\ ct.globalIndices["nope"].ProvisionedThroughput = Throughput(2, 3)

====
